---- MODULE Spec2Model ----
(***************************************************************************)
(* Model of scripts/periphery/flashloan_zap.py: the five routing-data      *)
(* calculators of the LeverageZap helper scripts.  One invocation of one   *)
(* calculator is modelled from its first statement to its return or to the *)
(* exception that ends it.  Every external call (a contract read, an Odos  *)
(* quote, an Odos route-calldata request) is one step, so that the order   *)
(* of the calls is visible.                                                *)
(***************************************************************************)
EXTENDS Integers, Sequences, FiniteSets, TLC

\* ------------------------------------------------------------------ bounds
\* Largest value of a table-driven synthetic quote function.
MaxOut == 3
\* Scaled-down stand-in for the largest finite float: int(a * d / o) raises
\* OverflowError when the quotient exceeds it.
FloatMax == 1000
\* The number of quote requests that is counted exactly; later requests
\* leave the counter at this value.
MaxQuotes == 6

\* ------------------------------------------------------- program constants
\* max_slippage=0.003, in parts per thousand.
SlippagePerMille == 3

Min(a, b) == IF a < b THEN a ELSE b

\* ceil(n / d) for n >= 0, d > 0
CeilDiv(n, d) == (n + d - 1) \div d

Pow10(k) == IF k = 0 THEN 1 ELSE 10

Calculators == {"create", "increase", "decrease", "close", "convert"}

\* ------------------------------------------------- the quote provider (Odos)
\* Synthetic quote functions: amount_in -> amount_out for a fixed token pair.
\*   flat   : x * p                        (flat price, no impact)
\*   capped : min(x * p, L)                (liquidity runs out at L)
\*   table  : t[min(x, 3)]                 (any function on 1..3, constant after)
\*   impact : floor(x * (L - x) / L), 0 from x = L on   (convex price impact)
QuoteFn(kind, p, L, t) == [kind |-> kind, p |-> p, L |-> L, t |-> t]

Tables == [1..3 -> 0..MaxOut]

SmallFns ==
    {QuoteFn("flat", p, 0, <<0, 0, 0>>) : p \in {1, 2}}
    \cup {QuoteFn("capped", 1, L, <<0, 0, 0>>) : L \in 1..MaxOut}
    \cup {QuoteFn("table", 0, 0, t) : t \in Tables}
    \cup {QuoteFn("impact", 0, L, <<0, 0, 0>>) : L \in {4, 8}}

Eval(q, x) ==
    CASE q.kind = "flat" -> x * q.p
      [] q.kind = "capped" -> Min(x * q.p, q.L)
      [] q.kind = "table" -> q.t[Min(x, 3)]
      [] q.kind = "impact" -> IF x >= q.L THEN 0 ELSE (x * (q.L - x)) \div q.L

\* The quote function never returns less for a larger input.
Monotone(q) ==
    CASE q.kind = "flat" -> TRUE
      [] q.kind = "capped" -> TRUE
      [] q.kind = "table" -> q.t[1] <= q.t[2] /\ q.t[2] <= q.t[3]
      [] q.kind = "impact" -> FALSE

\* f(x) > 0 for every x > 0.
Positive(q) ==
    CASE q.kind = "flat" -> q.p > 0
      [] q.kind = "capped" -> q.p > 0 /\ q.L > 0
      [] q.kind = "table" -> \A i \in 1..3 : q.t[i] > 0
      [] q.kind = "impact" -> FALSE

\* Some input amount yields an output >= d.
Sufficient(q, d) ==
    CASE q.kind = "flat" -> q.p > 0
      [] q.kind = "capped" -> q.p > 0 /\ q.L >= d
      [] q.kind = "table" -> \E i \in 1..3 : q.t[i] >= d
      [] q.kind = "impact" -> \E x \in 1..q.L : Eval(q, x) >= d

\* odos.get_quote: the failAt-th request of the invocation fails (0: none
\* does), and so does a request for a zero or negative amount.
QuoteFails(od, n, amt) == n + 1 = od.failAt \/ amt <= 0

\* ------------------------------------------------------------------- state
VARIABLES
    calc,            \* the calculator invoked
    args,            \* its arguments
    chain,           \* the on-chain state its contract reads return
    odos,            \* the quote provider: its quote function and failure
    pc,              \* position in the calculator; "done" / "failed" at the end
    err,             \* the exception that ended the invocation, or "none"
    amount,          \* close: MONEY balance used
    debt_amm,        \* close / convert: debt held in the AMM
    coll_amm,        \* close / convert: collateral held in the AMM
    debt_shortfall,  \* close: debt the swap has to cover
    amount_in,       \* close: collateral to swap
    amount_out,      \* close: quoted MONEY out; coll_in / debt_in / received
                     \* of the single-quote calculators
    path_id,         \* route id of the quote held
    coll_existing,   \* increase: market.user_state(account)[0]
    total_coll,      \* create / increase: collateral after the operation
    health,          \* arguments of pending_account_state_calculator
    ret,             \* the returned tuple
    nReads,          \* account-state reads made (balanceOf, get_close_loan_amounts,
                     \* get_sum_xy, user_state)
    nQuotes,         \* odos.get_quote requests made, counted up to MaxQuotes
    parity,          \* odos.get_quote requests made, modulo 2
    lastQuote,       \* the last odos.get_quote request and its answer
    calldataArgs     \* route ids passed to odos.get_route_calldata, in order

vars == <<calc, args, chain, odos, pc, err, amount, debt_amm, coll_amm,
          debt_shortfall, amount_in, amount_out, path_id, coll_existing,
          total_coll, health, ret, nReads, nQuotes, parity, lastQuote,
          calldataArgs>>

locals == <<amount, debt_amm, coll_amm, debt_shortfall, amount_in, amount_out,
            path_id, coll_existing, total_coll, health, ret>>

inputs == <<calc, args, chain, odos>>

NoQuote == [ok |-> FALSE, token_in |-> "none", token_out |-> "none",
            amount_in |-> 0, amount_out |-> 0, path_id |-> 0]

NoHealth == [account |-> "none", coll |-> 0, debt |-> 0, bands |-> 0]

NoRet == [routing |-> 0, second |-> 0, third |-> 0]

Args(coll_amount, debt_amount, num_bands, use_account_balance) ==
    [coll_amount |-> coll_amount, debt_amount |-> debt_amount,
     num_bands |-> num_bands, use_account_balance |-> use_account_balance]

Chain(balance, d_amm, c_amm, existing, price, decimals) ==
    [balance |-> balance, debt_amm |-> d_amm, coll_amm |-> c_amm,
     coll_existing |-> existing, oracle_price |-> price, decimals |-> decimals]

Odos(fn, failAt, routeFails) == [fn |-> fn, failAt |-> failAt, routeFails |-> routeFails]

\* Quote functions offered to the single-quote calculators.
SingleFns ==
    {QuoteFn("flat", 2, 0, <<0, 0, 0>>), QuoteFn("capped", 1, 450, <<0, 0, 0>>),
     QuoteFn("table", 0, 0, <<0, 0, 0>>), QuoteFn("table", 0, 0, <<1, 2, MaxOut>>)}

\* Close-loan invocations on small amounts, over every small quote function.
CloseSmall ==
    {<<"close", Args(0, 0, 0, u), Chain(b, d, c, 0, p, k), Odos(f, n, r)>> :
        u \in BOOLEAN, b \in {0, 1}, d \in {-4, -3, -2, -1, 0, 1}, c \in {0, 5},
        p \in {1, 4}, k \in {0, 1}, f \in SmallFns, n \in 0..2, r \in BOOLEAN}

\* Close-loan invocations on the spec's scenario: a shortfall of 1_000_000, an
\* oracle price of 2000 (and 1000), a flat quote of 1990 (and 2000) per unit.
CloseLarge ==
    {<<"close", Args(0, 0, 0, u), Chain(b, -1000000, 5, 0, p, 0),
       Odos(QuoteFn("flat", q, 0, <<0, 0, 0>>), n, r)>> :
        u \in BOOLEAN, b \in {0, 1}, p \in {1000, 2000}, q \in {1990, 2000},
        n \in 0..3, r \in BOOLEAN}

SingleQuote ==
    {<<c, Args(ca, da, 4, FALSE), Chain(0, 0, 0, e, 1, 0), Odos(f, n, r)>> :
        c \in {"create", "increase", "decrease"}, ca \in {0, 5}, da \in {0, 1, 1000},
        e \in {0, 5000}, f \in SingleFns, n \in 0..1, r \in BOOLEAN}

Convert ==
    {<<"convert", Args(ca, 0, 0, FALSE), Chain(0, d, c, 0, 1, 0), Odos(f, n, r)>> :
        ca \in {0, 5}, d \in {-1, 0, 1, 1000}, c \in {0, 7}, f \in SingleFns,
        n \in 0..1, r \in BOOLEAN}

Scenarios == CloseSmall \cup CloseLarge \cup SingleQuote \cup Convert

Init ==
    /\ \E s \in Scenarios :
          calc = s[1] /\ args = s[2] /\ chain = s[3] /\ odos = s[4]
    /\ pc = "start"
    /\ err = "none"
    /\ amount = 0 /\ debt_amm = 0 /\ coll_amm = 0 /\ debt_shortfall = 0
    /\ amount_in = 0 /\ amount_out = 0 /\ path_id = 0
    /\ coll_existing = 0 /\ total_coll = 0
    /\ health = NoHealth
    /\ ret = NoRet
    /\ nReads = 0 /\ nQuotes = 0 /\ parity = 0
    /\ lastQuote = NoQuote
    /\ calldataArgs = <<>>

\* ------------------------------------------------------- shared primitives
\* An exception leaves the calculator: none of the functions catches one.
Raise(kind) == pc' = "failed" /\ err' = kind

\* odos.get_quote(chain.id, zap, token_in, token_out, amount, max_slippage):
\* the answer to the next request.  Every answered request gets a route id of
\* its own, the number of the request.
get_quote(tin, tout, amt) ==
    IF QuoteFails(odos, nQuotes, amt)
    THEN [ok |-> FALSE, token_in |-> tin, token_out |-> tout,
          amount_in |-> amt, amount_out |-> 0, path_id |-> 0]
    ELSE [ok |-> TRUE, token_in |-> tin, token_out |-> tout,
          amount_in |-> amt, amount_out |-> Eval(odos.fn, amt),
          path_id |-> Min(nQuotes + 1, MaxQuotes)]

\* The provider has received request q.
Requested(q) ==
    /\ nQuotes' = Min(nQuotes + 1, MaxQuotes)
    /\ parity' = 1 - parity
    /\ lastQuote' = q

\* `return odos.get_route_calldata(zap, path_id), second, third`
ReturnRoute(second, third) ==
    /\ calldataArgs' = Append(calldataArgs, path_id)
    /\ IF odos.routeFails
       THEN Raise("route") /\ ret' = ret
       ELSE /\ pc' = "done"
            /\ err' = err
            /\ ret' = [routing |-> path_id, second |-> second, third |-> third]

\* to_int(x, decimals) of scripts.utils.float2int on the fraction n / d:
\* the amount in token precision, rounded up.
to_int(n, d, decimals) == CeilDiv(n * Pow10(decimals), d)

\* ------------------------------------------ get_create_loan_routing_data
CreateQuote ==
    /\ calc = "create" /\ pc = "start"
    /\ LET q == get_quote("MONEY", "collateral", args.debt_amount) IN
         /\ Requested(q)
         /\ IF q.ok
            THEN /\ amount_out' = q.amount_out
                 /\ path_id' = q.path_id
                 /\ pc' = "project" /\ err' = err
            ELSE Raise("quote") /\ UNCHANGED <<amount_out, path_id>>
    /\ UNCHANGED <<inputs, amount, debt_amm, coll_amm, debt_shortfall, amount_in,
                   coll_existing, total_coll, health, ret, nReads, calldataArgs>>

CreateProject ==
    /\ calc = "create" /\ pc = "project"
    /\ total_coll' = args.coll_amount + amount_out
    /\ health' = [account |-> "ZERO_ADDRESS", coll |-> args.coll_amount + amount_out,
                  debt |-> args.debt_amount, bands |-> args.num_bands]
    /\ pc' = "return"
    /\ UNCHANGED <<inputs, err, amount, debt_amm, coll_amm, debt_shortfall, amount_in,
                   amount_out, path_id, coll_existing, ret, nReads, nQuotes, parity,
                   lastQuote, calldataArgs>>

CreateReturn ==
    /\ calc = "create" /\ pc = "return"
    /\ ReturnRoute(total_coll, health)
    /\ UNCHANGED <<inputs, amount, debt_amm, coll_amm, debt_shortfall, amount_in,
                   amount_out, path_id, coll_existing, total_coll, health, nReads,
                   nQuotes, parity, lastQuote>>

\* ---------------------------------------- get_increase_loan_routing_data
\* A quote step that asks again after a failed request.
IncreaseQuote_retry ==
    /\ calc = "increase" /\ pc = "start"
    /\ LET q == get_quote("MONEY", "collateral", args.debt_amount) IN
         /\ Requested(q)
         /\ IF q.ok
            THEN /\ amount_out' = q.amount_out
                 /\ path_id' = q.path_id
                 /\ pc' = "user_state" /\ err' = err
            ELSE UNCHANGED <<pc, err, amount_out, path_id>>
    /\ UNCHANGED <<inputs, amount, debt_amm, coll_amm, debt_shortfall, amount_in,
                   coll_existing, total_coll, health, ret, nReads, calldataArgs>>

IncreaseQuote ==
    /\ calc = "increase" /\ pc = "start"
    /\ LET q == get_quote("MONEY", "collateral", args.debt_amount) IN
         /\ Requested(q)
         /\ IF q.ok
            THEN /\ amount_out' = q.amount_out
                 /\ path_id' = q.path_id
                 /\ pc' = "user_state" /\ err' = err
            ELSE Raise("quote") /\ UNCHANGED <<amount_out, path_id>>
    /\ UNCHANGED <<inputs, amount, debt_amm, coll_amm, debt_shortfall, amount_in,
                   coll_existing, total_coll, health, ret, nReads, calldataArgs>>

\* A total that leaves out the collateral already in the loan.
TotalColl_no_existing(existing, added, swapped) == added + swapped

\* total_coll = coll_existing + coll_amount + coll_in
TotalColl(existing, added, swapped) == existing + added + swapped

IncreaseUserState ==
    /\ calc = "increase" /\ pc = "user_state"
    /\ coll_existing' = chain.coll_existing
    /\ nReads' = nReads + 1
    /\ total_coll' = TotalColl(chain.coll_existing, args.coll_amount, amount_out)
    /\ pc' = "project"
    /\ UNCHANGED <<inputs, err, amount, debt_amm, coll_amm, debt_shortfall, amount_in,
                   amount_out, path_id, health, ret, nQuotes, parity, lastQuote,
                   calldataArgs>>

IncreaseProject ==
    /\ calc = "increase" /\ pc = "project"
    /\ health' = [account |-> "account", coll |-> args.coll_amount + amount_out,
                  debt |-> args.debt_amount, bands |-> 0]
    /\ pc' = "return"
    /\ UNCHANGED <<inputs, err, amount, debt_amm, coll_amm, debt_shortfall, amount_in,
                   amount_out, path_id, coll_existing, total_coll, ret, nReads, nQuotes,
                   parity, lastQuote, calldataArgs>>

IncreaseReturn ==
    /\ calc = "increase" /\ pc = "return"
    /\ ReturnRoute(total_coll, health)
    /\ UNCHANGED <<inputs, amount, debt_amm, coll_amm, debt_shortfall, amount_in,
                   amount_out, path_id, coll_existing, total_coll, health, nReads,
                   nQuotes, parity, lastQuote>>

\* ---------------------------------------- get_decrease_loan_routing_data
DecreaseQuote ==
    /\ calc = "decrease" /\ pc = "start"
    /\ LET q == get_quote("collateral", "MONEY", args.coll_amount) IN
         /\ Requested(q)
         /\ IF q.ok
            THEN /\ amount_out' = q.amount_out
                 /\ path_id' = q.path_id
                 /\ pc' = "project" /\ err' = err
            ELSE Raise("quote") /\ UNCHANGED <<amount_out, path_id>>
    /\ UNCHANGED <<inputs, amount, debt_amm, coll_amm, debt_shortfall, amount_in,
                   coll_existing, total_coll, health, ret, nReads, calldataArgs>>

\* A projection step that first reads the account's state, as increase does.
DecreaseProject_reads_state ==
    /\ calc = "decrease" /\ pc = "project"
    /\ nReads' = nReads + 1
    /\ health' = [account |-> "account", coll |-> -args.coll_amount,
                  debt |-> -amount_out, bands |-> 0]
    /\ pc' = "return"
    /\ UNCHANGED <<inputs, err, amount, debt_amm, coll_amm, debt_shortfall, amount_in,
                   amount_out, path_id, coll_existing, total_coll, ret, nQuotes,
                   parity, lastQuote, calldataArgs>>

DecreaseProject ==
    /\ calc = "decrease" /\ pc = "project"
    /\ health' = [account |-> "account", coll |-> -args.coll_amount,
                  debt |-> -amount_out, bands |-> 0]
    /\ pc' = "return"
    /\ UNCHANGED <<inputs, err, amount, debt_amm, coll_amm, debt_shortfall, amount_in,
                   amount_out, path_id, coll_existing, total_coll, ret, nReads, nQuotes,
                   parity, lastQuote, calldataArgs>>

DecreaseReturn ==
    /\ calc = "decrease" /\ pc = "return"
    /\ ReturnRoute(amount_out, health)
    /\ UNCHANGED <<inputs, amount, debt_amm, coll_amm, debt_shortfall, amount_in,
                   amount_out, path_id, coll_existing, total_coll, health, nReads,
                   nQuotes, parity, lastQuote>>

\* ------------------------------------------- get_close_loan_routing_data
CloseReadBalance ==
    /\ calc = "close" /\ pc = "start"
    /\ amount' = IF args.use_account_balance THEN chain.balance ELSE 0
    /\ nReads' = IF args.use_account_balance THEN nReads + 1 ELSE nReads
    /\ pc' = "amounts"
    /\ UNCHANGED <<inputs, err, debt_amm, coll_amm, debt_shortfall, amount_in,
                   amount_out, path_id, coll_existing, total_coll, health, ret,
                   nQuotes, parity, lastQuote, calldataArgs>>

CloseReadAmounts ==
    /\ calc = "close" /\ pc = "amounts"
    /\ debt_amm' = chain.debt_amm
    /\ coll_amm' = chain.coll_amm
    /\ debt_shortfall' = -(amount + chain.debt_amm)
    /\ nReads' = nReads + 1
    /\ pc' = "assert"
    /\ UNCHANGED <<inputs, err, amount, amount_in, amount_out, path_id, coll_existing,
                   total_coll, health, ret, nQuotes, parity, lastQuote, calldataArgs>>

\* The asserts without the one on the shortfall.
CloseAsserts_no_shortfall == debt_amm < 0 /\ coll_amm > 0

\* assert debt_amm < 0; assert coll_amm > 0; assert debt_shortfall > 0
CloseAsserts == debt_amm < 0 /\ coll_amm > 0 /\ debt_shortfall > 0

CloseAssert ==
    /\ calc = "close" /\ pc = "assert"
    /\ IF CloseAsserts THEN pc' = "seed" /\ err' = err ELSE Raise("assert")
    /\ UNCHANGED <<inputs, locals, nReads, nQuotes, parity, lastQuote, calldataArgs>>

\* amount_in = debt_shortfall / oracle_price * (1 + max_slippage), to_int'ed;
\* the float expression is kept as the exact fraction
\* debt_shortfall * (1000 + 3) / (oracle_price * 1000).
CloseSeed ==
    /\ calc = "close" /\ pc = "seed"
    /\ amount_in' = to_int(debt_shortfall * (1000 + SlippagePerMille),
                           chain.oracle_price * 1000, chain.decimals)
    /\ pc' = "quote"
    /\ UNCHANGED <<inputs, err, amount, debt_amm, coll_amm, debt_shortfall, amount_out,
                   path_id, coll_existing, total_coll, health, ret, nReads, nQuotes,
                   parity, lastQuote, calldataArgs>>

CloseSeedQuote ==
    /\ calc = "close" /\ pc = "quote"
    /\ LET q == get_quote("collateral", "MONEY", amount_in) IN
         /\ Requested(q)
         /\ IF q.ok
            THEN /\ amount_out' = q.amount_out
                 /\ path_id' = q.path_id
                 /\ pc' = "loop" /\ err' = err
            ELSE Raise("quote") /\ UNCHANGED <<amount_out, path_id>>
    /\ UNCHANGED <<inputs, amount, debt_amm, coll_amm, debt_shortfall, amount_in,
                   coll_existing, total_coll, health, ret, nReads, calldataArgs>>

\* A loop that also runs when the quote meets the shortfall exactly.
LoopCond_inclusive(out, shortfall) == out <= shortfall

\* while amount_out < debt_shortfall
LoopCond(out, shortfall) == out < shortfall

\* a * d / o is too large for a float: floor(a * d / o) > FloatMax, computed
\* without forming a * d.
TooLargeForFloat(a, d, o) == a >= CeilDiv((FloatMax + 1) * o, d)

\* int(amount_in * debt_shortfall / amount_out), for amount_out > 0: the product
\* is an exact integer, `/` is float division and int() truncates.  For the
\* amounts of this model (products below 2^53) the float quotient truncates
\* to the exact floor.
Rescale(a, d, o) == (a * d) \div o

\* A loop that keeps the route of the quote it started from.
Requote_stale_route(q) == amount_out' = q.amount_out /\ path_id' = path_id

\* amount_out, path_id = odos.get_quote(...) in the loop: the new quote
\* replaces the one held.
Requote(q) == amount_out' = q.amount_out /\ path_id' = q.path_id

\* One pass through the body of the while loop.
CloseLoop ==
    /\ calc = "close" /\ pc = "loop"
    /\ LoopCond(amount_out, debt_shortfall)
    /\ IF amount_out = 0
       THEN /\ Raise("zerodiv")
            /\ UNCHANGED <<amount_in, amount_out, path_id, nQuotes, parity, lastQuote>>
       ELSE IF TooLargeForFloat(amount_in, debt_shortfall, amount_out)
       THEN /\ Raise("overflow")
            /\ UNCHANGED <<amount_in, amount_out, path_id, nQuotes, parity, lastQuote>>
       ELSE LET a == Rescale(amount_in, debt_shortfall, amount_out)
                q == get_quote("collateral", "MONEY", a)
            IN  /\ amount_in' = a
                /\ Requested(q)
                /\ IF q.ok
                   THEN Requote(q) /\ UNCHANGED <<pc, err>>
                   ELSE Raise("quote") /\ UNCHANGED <<amount_out, path_id>>
    /\ UNCHANGED <<inputs, amount, debt_amm, coll_amm, debt_shortfall, coll_existing,
                   total_coll, health, ret, nReads, calldataArgs>>

CloseReturn ==
    /\ calc = "close" /\ pc = "loop"
    /\ ~LoopCond(amount_out, debt_shortfall)
    /\ ReturnRoute(amount_in, amount_out)
    /\ UNCHANGED <<inputs, amount, debt_amm, coll_amm, debt_shortfall, amount_in,
                   amount_out, path_id, coll_existing, total_coll, health, nReads,
                   nQuotes, parity, lastQuote>>

\* ----------------------- get_coll_converted_close_and_create_routing_data
ConvertReadSumXY ==
    /\ calc = "convert" /\ pc = "start"
    /\ debt_amm' = chain.debt_amm
    /\ coll_amm' = chain.coll_amm
    /\ nReads' = nReads + 1
    /\ pc' = "assert"
    /\ UNCHANGED <<inputs, err, amount, debt_shortfall, amount_in, amount_out, path_id,
                   coll_existing, total_coll, health, ret, nQuotes, parity, lastQuote,
                   calldataArgs>>

\* assert debt_amm > 0
ConvertAsserts == debt_amm > 0

ConvertAssert ==
    /\ calc = "convert" /\ pc = "assert"
    /\ IF ConvertAsserts THEN pc' = "quote" /\ err' = err ELSE Raise("assert")
    /\ UNCHANGED <<inputs, locals, nReads, nQuotes, parity, lastQuote, calldataArgs>>

ConvertQuote ==
    /\ calc = "convert" /\ pc = "quote"
    /\ LET q == get_quote("MONEY", "collateral", debt_amm) IN
         /\ Requested(q)
         /\ IF q.ok
            THEN /\ amount_out' = q.amount_out
                 /\ path_id' = q.path_id
                 /\ pc' = "return" /\ err' = err
            ELSE Raise("quote") /\ UNCHANGED <<amount_out, path_id>>
    /\ UNCHANGED <<inputs, amount, debt_amm, coll_amm, debt_shortfall, amount_in,
                   coll_existing, total_coll, health, ret, nReads, calldataArgs>>

ConvertReturn ==
    /\ calc = "convert" /\ pc = "return"
    /\ ReturnRoute(args.coll_amount + coll_amm + amount_out, 0)
    /\ UNCHANGED <<inputs, amount, debt_amm, coll_amm, debt_shortfall, amount_in,
                   amount_out, path_id, coll_existing, total_coll, health, nReads,
                   nQuotes, parity, lastQuote>>

\* ------------------------------------------------------------ specification
Next ==
    \/ CreateQuote \/ CreateProject \/ CreateReturn
    \/ IncreaseQuote \/ IncreaseUserState \/ IncreaseProject \/ IncreaseReturn
    \/ DecreaseQuote \/ DecreaseProject \/ DecreaseReturn
    \/ CloseReadBalance \/ CloseReadAmounts \/ CloseAssert \/ CloseSeed
    \/ CloseSeedQuote \/ CloseLoop \/ CloseReturn
    \/ ConvertReadSumXY \/ ConvertAssert \/ ConvertQuote \/ ConvertReturn

Spec == Init /\ [][Next]_vars

\* The calculators are straight-line, single-threaded code: a calculator that
\* can take its next step takes it.
FairSpec == Spec /\ WF_vars(Next)

TypeOK ==
    /\ calc \in Calculators
    /\ pc \in {"start", "project", "user_state", "return", "amounts", "assert",
               "seed", "quote", "loop", "done", "failed"}
    /\ err \in {"none", "assert", "quote", "zerodiv", "overflow", "route"}
    /\ nQuotes \in 0..MaxQuotes /\ parity \in {0, 1} /\ nReads \in 0..2
    /\ amount_in \in Nat /\ amount_out \in Nat
    /\ Len(calldataArgs) <= 1

\* ------------------------------------------------------------------ claims
\* The seed estimate of the close-loan calculator for the shortfall computed.
SeedAmount ==
    to_int(debt_shortfall * (1000 + SlippagePerMille), chain.oracle_price * 1000,
           chain.decimals)

\* The seed quote of a close-loan invocation has been answered.
SeedQuoted == calc = "close" /\ pc = "loop" /\ nQuotes = 1

\* C1: in get_close_loan_routing_data, for a quote function that is monotone,
\* positive and has sufficient liquidity, and a seed amount_in > 0, the
\* convergence loop terminates, and on exit amount_out >= debt_shortfall.
C1_SearchTerminates ==
    (/\ SeedQuoted /\ odos.failAt = 0 /\ amount_in > 0
     /\ Monotone(odos.fn) /\ Positive(odos.fn) /\ Sufficient(odos.fn, debt_shortfall))
    ~> (pc # "loop" /\ amount_out >= debt_shortfall)

\* C2: in get_close_loan_routing_data, when no input amount yields an output
\* that reaches debt_shortfall, the calculator ends in a failure after finitely
\* many quote requests.
C2_InsufficientFails ==
    (SeedQuoted /\ ~Sufficient(odos.fn, debt_shortfall)) ~> (pc = "failed")

\* The spec's concrete scenario: shortfall 1_000_000, oracle price 2000,
\* max_slippage 0.003, flat quote of 1990 per unit, no failing request; its
\* seed quote undershoots.
C3Scenario ==
    /\ calc = "close" /\ debt_shortfall = 1000000 /\ chain.oracle_price = 2000
    /\ chain.decimals = 0
    /\ odos.fn = QuoteFn("flat", 1990, 0, <<0, 0, 0>>) /\ odos.failAt = 0
    /\ Eval(odos.fn, SeedAmount) < debt_shortfall

\* C3: in the spec's flat-price scenario the loop performs exactly one
\* rescale-and-re-quote iteration and then exits with
\* amount_out >= debt_shortfall.
C3_OneIteration ==
    (C3Scenario /\ nQuotes >= 2) => (nQuotes = 2 /\ amount_out >= debt_shortfall)

\* C4: whenever get_close_loan_routing_data returns, the returned amount_in and
\* amount_out are those of the last quote requested, get_route_calldata was
\* called exactly once, with the last quote's route id, and with the route id
\* of no earlier quote.
C4_ReturnsLastQuote ==
    (calc = "close" /\ pc = "done") =>
        /\ nQuotes < MaxQuotes
        /\ lastQuote.ok /\ lastQuote.path_id = nQuotes
        /\ ret.second = lastQuote.amount_in
        /\ ret.third = lastQuote.amount_out
        /\ calldataArgs = <<lastQuote.path_id>>
        /\ ret.routing = lastQuote.path_id
        /\ \A r \in 1..(nQuotes - 1) : calldataArgs[1] # r

C4_Witness == calc = "close" /\ pc = "done" /\ nQuotes >= 3

\* The precondition of the calculator invoked is violated by the chain state.
PreconditionViolated ==
    \/ /\ calc = "close"
       /\ \/ chain.debt_amm >= 0
          \/ chain.coll_amm <= 0
          \/ -((IF args.use_account_balance THEN chain.balance ELSE 0)
               + chain.debt_amm) <= 0
    \/ calc = "convert" /\ chain.debt_amm <= 0

\* C5: a calculator whose precondition is violated fails before any quote or
\* route-calldata request and does not retry: it never gets past its asserts,
\* never returns, and reads the state at most once.
C5_PreconditionFailsEarly ==
    PreconditionViolated =>
        /\ nQuotes = 0 /\ calldataArgs = <<>>
        /\ pc \in {"start", "amounts", "assert", "failed"}
        /\ (pc = "failed" => err = "assert")
        /\ nReads <= (IF calc = "close" THEN 2 ELSE 1)

C5_Witness ==
    /\ calc = "close" /\ pc = "failed" /\ err = "assert"
    /\ debt_amm < 0 /\ coll_amm > 0 /\ debt_shortfall <= 0

\* The seed quote of a close-loan invocation was answered with exactly the
\* shortfall.
SeedExact ==
    /\ calc = "close" /\ nQuotes >= 1
    /\ ~QuoteFails(odos, 0, SeedAmount)
    /\ Eval(odos.fn, SeedAmount) = debt_shortfall

\* C6: if the seed quote returns exactly debt_shortfall, the loop body is not
\* executed: one quote is requested in the whole invocation, and the returned
\* amount_in is the seed amount and the returned amount_out is debt_shortfall.
C6_ExactSeedSkipsLoop ==
    SeedExact =>
        /\ nQuotes = 1
        /\ lastQuote.amount_in = SeedAmount
        /\ pc \in {"loop", "done", "failed"}
        /\ (pc = "failed" => err = "route")
        /\ (pc = "done" => ret.second = SeedAmount /\ ret.third = debt_shortfall)

C6_Witness == SeedExact /\ pc = "done"

\* C7: get_increase_loan_routing_data requests one quote, for exactly
\* debt_amount of the stable token into collateral, and returns total_coll =
\* existing collateral + caller-added coll_amount + the quote's output.
C7_IncreaseTotalColl ==
    (calc = "increase" /\ pc = "done") =>
        /\ nQuotes = 1
        /\ lastQuote.token_in = "MONEY" /\ lastQuote.token_out = "collateral"
        /\ lastQuote.amount_in = args.debt_amount
        /\ ret.second = chain.coll_existing + args.coll_amount + lastQuote.amount_out

\* existing 5000, added 0, debt increase 1000, quote output 450: 5450
C7_Witness ==
    /\ calc = "increase" /\ pc = "done"
    /\ chain.coll_existing = 5000 /\ args.coll_amount = 0 /\ args.debt_amount = 1000
    /\ lastQuote.amount_out = 450 /\ ret.second = 5450

\* The last get_quote request failed.
QuoteFailed == nQuotes >= 1 /\ ~lastQuote.ok

\* C8: in every calculator a failed get_quote call is the calculator's
\* outcome: no get_quote call follows it and get_route_calldata is not called.
C8_QuoteFailureSurfaces ==
    /\ [](QuoteFailed => (pc = "failed" /\ err = "quote" /\ calldataArgs = <<>>
                          /\ ret = NoRet))
    /\ [][QuoteFailed => (parity' = parity /\ nQuotes' = nQuotes
                          /\ calldataArgs' = calldataArgs)]_vars

C8_Witness == calc = "close" /\ QuoteFailed /\ nQuotes = 2

\* C9: in every calculator the reads of account / loan state all happen
\* before the first quote request.
C9_ReadsBeforeQuotes == [][nReads' > nReads => nQuotes = 0]_vars

\* C9, amended: the reads of account / loan state happen before the first
\* quote request, except that get_increase_loan_routing_data reads the
\* existing collateral (user_state) after its one quote and before it asks for
\* the route calldata.
C9_ReadsBeforeQuotesButIncrease ==
    [][nReads' > nReads =>
         \/ nQuotes = 0
         \/ calc = "increase" /\ nQuotes = 1 /\ nReads = 0 /\ calldataArgs = <<>>]_vars

C9_Witness == calc = "increase" /\ pc = "project" /\ nReads = 1 /\ nQuotes = 1

\* C10: every iteration of the convergence loop increases amount_in.
C10_AmountInIncreases ==
    [][(calc = "close" /\ pc = "loop" /\ parity' # parity) => amount_in' > amount_in]_vars

====
